---- MODULE Spec2Model ----
\* Model of plutus.evaluation.performance.PerformanceHistory: the constructor
\* and the six metric computations it runs in order.
\*
\* Decimal values are modelled as exact reduced fractions <<n, d>> with d > 0.
\* Every product and sum of the modelled inputs has far fewer than 28
\* significant digits, so Decimal multiplication, addition and comparison are
\* exact on them; Decimal division rounds to 28 digits, which is monotone and
\* keeps sign and zero, and is modelled as the exact quotient.
\* Values that go through float square roots and math.pow are kept symbolic.
EXTENDS Integers, Sequences, FiniteSets, TLC

\* ------------------------------------------------------------------ bounds
\* longest return series the model enumerates
MaxPeriods == 3

\* ------------------------------------------------- exact decimal arithmetic
Abs(x) == IF x < 0 THEN -x ELSE x

RECURSIVE GCD(_, _)
GCD(a, b) == IF b = 0 THEN a ELSE GCD(b, a % b)

LCM(a, b) == (a \div GCD(a, b)) * b

Norm(n, d) == LET g == GCD(Abs(n), d) IN <<n \div g, d \div g>>

Zero == <<0, 1>>
One == <<1, 1>>
Dec(n, d) == Norm(n, d)

RAdd(x, y) ==
    LET l == LCM(x[2], y[2])
    IN  Norm(x[1] * (l \div x[2]) + y[1] * (l \div y[2]), l)

RNeg(x) == <<-x[1], x[2]>>

RSub(x, y) == RAdd(x, RNeg(y))

RMul(x, y) ==
    LET g1 == GCD(Abs(x[1]), y[2])
        g2 == GCD(Abs(y[1]), x[2])
    IN  IF x[1] = 0 \/ y[1] = 0 THEN Zero
        ELSE <<(x[1] \div g1) * (y[1] \div g2), (x[2] \div g2) * (y[2] \div g1)>>

RInv(x) == IF x[1] > 0 THEN <<x[2], x[1]>> ELSE <<-x[2], -x[1]>>

\* x / y for y # 0 (the callers model the division-by-zero exception)
RDiv(x, y) == RMul(x, RInv(y))

RLess(x, y) ==
    LET l == LCM(x[2], y[2])
    IN  x[1] * (l \div x[2]) < y[1] * (l \div y[2])

RLeq(x, y) == ~RLess(y, x)

RMin(x, y) == IF RLess(y, x) THEN y ELSE x

RECURSIVE RSum(_)
RSum(s) == IF s = <<>> THEN Zero ELSE RAdd(Head(s), RSum(Tail(s)))

\* ------------------------------------------------------------ value shapes
None == [kind |-> "none"]
DecVal(q) == [kind |-> "dec", val |-> q]
IntVal(k) == [kind |-> "int", val |-> k]
Inf == [kind |-> "inf"]
\* sqrt(af) * excess / sqrt(dev2), computed in floating point by the code
RatioVal(af, excess, dev2) ==
    [kind |-> "ratio", af |-> af, excess |-> excess, dev2 |-> dev2]
\* math.pow(base, exp) - 1, computed in floating point by the code
PowVal(base, exp) == [kind |-> "powm1", base |-> base, exp |-> exp]
Raise(e) == [kind |-> "raise", error |-> e]

\* ------------------------------------------------------------------ inputs
\* absolute_return values the model draws a series from
ReturnValues ==
    {Dec(-3, 2), Dec(-1, 1), Dec(-1, 20), Zero, Dec(1, 10), Dec(1, 2)}

\* annualized_factor values (periods per year)
AnnualizedFactors == {3, 252}

\* annual risk_free_return values a caller may want the Sharpe ratio to use
RiskFreeReturns == {Dec(3, 100), Dec(5, 100)}

\* annual minimal_acceptable_return values a caller may want Sortino to use
MinimalAcceptableReturns == {Dec(7, 100), Dec(1, 10)}

\* shape of the performances argument: records exposing absolute_return, or
\* a flat list of Decimal
InputShapes == {"records", "flat"}

ReturnSeries == UNION {[1..n -> ReturnValues] : n \in 0..MaxPeriods}

\* returns [0.1, -0.05, 0.1]
ScenarioB == <<Dec(1, 10), Dec(-1, 20), Dec(1, 10)>>

\* ------------------------------------------------------- metric computations
\* all(r == Decimal('0') for r in returns)
AllZeroNever(returns) == FALSE
AllZero(returns) == \A k \in 1..Len(returns) : returns[k] = Zero

\* statistics.mean(returns), exact
Mean(returns) == RDiv(RSum(returns), <<Len(returns), 1>>)

\* statistics.variance(returns): Bessel-corrected, exact; stdev is its square
\* root, which is 0 exactly when the variance is 0
Variance(returns) ==
    LET m == Mean(returns)
        sq == [k \in 1..Len(returns) |->
                  RMul(RSub(returns[k], m), RSub(returns[k], m))]
    IN  RDiv(RSum(sq), <<Len(returns) - 1, 1>>)

\* risk_free_return = Decimal('0.03')
RiskFreeReturn == Dec(3, 100)

\* mar=Decimal('0.07') passed by __init__
Mar == Dec(7, 100)

\* [performance.absolute_return for performance in self.performances]: a
\* Decimal has no attribute absolute_return
AbsoluteReturns(perfs, shape) ==
    IF shape = "flat" /\ Len(perfs) >= 1 THEN Raise("AttributeError")
    ELSE [kind |-> "list", val |-> perfs]

\* PerformanceHistory._get_sharpe_ratio
GetSharpeRatioEmptyOnly(returns, af) ==
    IF Len(returns) < 1 \/ AllZero(returns) THEN DecVal(Zero)
    ELSE IF Len(returns) = 1 THEN Raise("StatisticsError")
    ELSE LET excess == RSub(Mean(returns), RDiv(RiskFreeReturn, <<af, 1>>))
             dev2 == Variance(returns)
         IN  IF dev2 = Zero THEN Raise("DivisionByZero")
             ELSE RatioVal(af, excess, dev2)
GetSharpeRatio(returns, af) ==
    IF Len(returns) <= 1 \/ AllZero(returns) THEN DecVal(Zero)
    ELSE LET excess == RSub(Mean(returns), RDiv(RiskFreeReturn, <<af, 1>>))
             dev2 == Variance(returns)
         IN  IF dev2 = Zero
             THEN \* Decimal / Decimal('0')
                  IF excess = Zero THEN Raise("InvalidOperation")
                  ELSE Raise("DivisionByZero")
             ELSE RatioVal(af, excess, dev2)

\* min(Decimal(0), r - mar/self.annualized_factor)
ShortfallNoThreshold(r, mar, af) == RMin(Zero, r)
Shortfall(r, mar, af) == RMin(Zero, RSub(r, RDiv(mar, <<af, 1>>)))

\* sum(min(0, r - mar/af)**2 for r in returns)/len(returns)
SemiVariance(returns, mar, af) ==
    LET sq == [k \in 1..Len(returns) |->
                  RMul(Shortfall(returns[k], mar, af),
                       Shortfall(returns[k], mar, af))]
    IN  RDiv(RSum(sq), <<Len(returns), 1>>)

\* PerformanceHistory._get_sortino_ratio
GetSortinoRatio(returns, mar, af) ==
    IF Len(returns) <= 1 \/ AllZero(returns) THEN DecVal(Zero)
    ELSE LET dev2 == SemiVariance(returns, mar, af)
             excess == RSub(Mean(returns), RDiv(mar, <<af, 1>>))
         IN  \* target_semi_deviation > 0 iff its square is
             IF RLess(Zero, dev2) THEN RatioVal(af, excess, dev2) ELSE Inf

\* one iteration of the loop of _get_cumulative_performance
CumulativeAppendNoBase(cum, r) == Append(cum, RMul(cum[Len(cum)], r))
CumulativeAppend(cum, r) == Append(cum, RMul(cum[Len(cum)], RAdd(One, r)))

\* Python max() / min() over a non-empty list: first extreme element
RECURSIVE MaxOf(_)
MaxOf(s) ==
    IF Len(s) = 1 THEN s[1]
    ELSE LET m == MaxOf(SubSeq(s, 1, Len(s) - 1))
         IN  IF RLess(m, s[Len(s)]) THEN s[Len(s)] ELSE m

RECURSIVE MinOf(_)
MinOf(s) ==
    IF Len(s) = 1 THEN s[1]
    ELSE LET m == MinOf(SubSeq(s, 1, Len(s) - 1))
         IN  IF RLess(s[Len(s)], m) THEN s[Len(s)] ELSE m

\* max_performance[i] = max(self.cumulative_performance[:i + 1])
RunningMaxShifted(cum) ==
    [k \in 1..Len(cum) |->
        MaxOf(SubSeq(cum, 1, IF k < Len(cum) THEN k + 1 ELSE k))]
RunningMaxTail(cum) == [k \in 1..Len(cum) |-> MaxOf(SubSeq(cum, k, Len(cum)))]
RunningMaxGlobal(cum) == [k \in 1..Len(cum) |-> MaxOf(cum)]
RunningMax(cum) == [k \in 1..Len(cum) |-> MaxOf(SubSeq(cum, 1, k))]

\* (cumulative_performance[i] - max_performance[i]) / max_performance[i]
DrawdownAtRatio(c, p) == RDiv(c, p)
DrawdownAt(c, p) == RDiv(RSub(c, p), p)

\* PerformanceHistory._get_maximum_drawdown
GetMaximumDrawdown(cum) ==
    LET max_performance == RunningMax(cum)
    IN  IF \E k \in 1..Len(cum) : max_performance[k] = Zero
        THEN IF \E k \in 1..Len(cum) :
                    max_performance[k] = Zero /\ cum[k] # Zero
             THEN Raise("DivisionByZero") ELSE Raise("InvalidOperation")
        ELSE DecVal(MinOf([k \in 1..Len(cum) |->
                              DrawdownAt(cum[k], max_performance[k])]))

\* PerformanceHistory._get_annual_return. math.pow raises ValueError for a
\* negative base with a non-integer exponent and returns a float otherwise
\* (no modelled input is large enough for its OverflowError).
GetAnnualReturnGuarded(cum, af, n) ==
    LET m == IF n = 0 THEN 1 ELSE n
        base == cum[Len(cum)]
        exp == Norm(af, m)
    IN  IF base[1] < 0 /\ exp[2] # 1 THEN Raise("ValueError")
        ELSE PowVal(base, exp)
GetAnnualReturn(cum, af, n) ==
    IF n = 0 THEN Raise("DivisionByZero")
    ELSE LET base == cum[Len(cum)]
             exp == Norm(af, n)
         IN  IF base[1] < 0 /\ exp[2] # 1 THEN Raise("ValueError")
             ELSE PowVal(base, exp)

\* longest_drawdown = max(longest_drawdown, i - max_performance_index)
LongestUpdateInclusive(ld, i, idx) ==
    IF ld > i - idx + 1 THEN ld ELSE i - idx + 1
LongestUpdateBetween(ld, i, idx) ==
    IF ld > i - idx - 1 THEN ld ELSE i - idx - 1
LongestUpdateSum(ld, i, idx) == ld + (i - idx)
LongestUpdate(ld, i, idx) == IF ld > i - idx THEN ld ELSE i - idx

\* self.cumulative_performance[i] > max_performance
ExceedsPeakOrEqual(c, peak) == RLeq(peak, c)
ExceedsPeak(c, peak) == RLess(peak, c)

\* self.cumulative_performance[i] < min_performance
SetsNewTroughOrEqual(c, trough) == RLeq(c, trough)
SetsNewTrough(c, trough) == RLess(c, trough)

\* ------------------------------------------------------------------- state
VARIABLES
    pc,                       \* position inside PerformanceHistory.__init__
    error,                    \* exception that left the constructor, or "none"
    performances,             \* self.performances (their absolute_return)
    annualized_factor,        \* self.annualized_factor
    risk_free_return,         \* the caller's annual risk-free rate
    minimal_acceptable_return, \* the caller's annual MAR
    input_shape,              \* shape of the performances argument
    n_periods,                \* self.n_periods
    sharpe_ratio,             \* self.sharpe_ratio
    sortino_ratio,            \* self.sortino_ratio
    cumulative_performance,   \* self.cumulative_performance
    maximum_drawdown,         \* self.maximum_drawdown
    annual_return,            \* self.annual_return
    longest_drawdown,         \* self.longest_drawdown
    l_cumulative_performance, \* local list of _get_cumulative_performance
    i,                        \* loop index of _get_longest_drawdown
    l_longest_drawdown,       \* local longest_drawdown
    max_performance,          \* local max_performance
    max_performance_index,    \* local max_performance_index
    min_performance           \* local min_performance

attrs == <<sharpe_ratio, sortino_ratio, cumulative_performance,
           maximum_drawdown, annual_return, longest_drawdown>>
scan == <<i, l_longest_drawdown, max_performance, max_performance_index,
          min_performance>>
inputs == <<performances, annualized_factor, risk_free_return,
            minimal_acceptable_return, input_shape>>
performanceVars ==
    <<pc, error, inputs, n_periods, attrs, l_cumulative_performance, scan>>

VARIABLES
    quote_class,      \* the class from_dict is called on
    info_dict,        \* the caller's dictionary
    original_dict,    \* content of info_dict before the first call
    first_quote,      \* what the first from_dict(info_dict) produced
    quote,            \* what the latest from_dict(info_dict) produced
    n_calls,          \* from_dict(info_dict) calls made so far
    serialized,       \* quote.to_dict()
    restored          \* from_dict(serialized)

VARIABLES
    cached_quote,     \* the CachedQuote instance (self)
    hub_quote,        \* quote argument of the latest update
    hub_source,       \* source_name argument of the latest update
    update_outcome,   \* how the latest update ended
    first_update,     \* instrument of the first update that succeeded
    last_price_update \* latest successful update that carried a ref_price

VARIABLES
    csv_rows,         \* data rows as csv.DictReader yields them
    row_num,          \* row_num of the row read_csv_file parses next
    quotes,           \* quotes collected so far
    csv_result        \* how read_csv_file ended

VARIABLES
    simulation_thread, \* Environment.simulation_thread
    created,           \* Thread objects constructed so far
    started,           \* Thread objects whose start() succeeded
    start_pc,          \* position of each start_simulation caller
    sim_pc,            \* position of each thread in _increase_when_time_pass
    sim_read,          \* current_time as read by the thread's +=
    lock_owner,        \* holder of Environment.lock_current_time
    current_time,      \* Environment.current_time, in tenths of a second
    set_pc,            \* position of the set_time caller
    set_arg,           \* date_time argument of the running set_time
    set_count,         \* set_time calls started
    last_set,          \* argument of the latest set_time that wrote
    ticks_since,       \* ticks that wrote after that set_time
    sleep_pc,          \* position of the sleep_until caller
    until_time,        \* until_time argument of sleep_until
    until_date_time,   \* local until_date_time of sleep_until
    sleep_from,        \* current time when sleep_until was called
    returned_at,       \* current time sleep_until saw when it returned
    host_offset        \* system time zone, relative to Environment.TIMEZONE

quoteVars == <<quote_class, info_dict, original_dict, first_quote, quote,
               n_calls, serialized, restored>>
cacheVars == <<cached_quote, hub_quote, hub_source, update_outcome,
               first_update, last_price_update>>
csvVars == <<csv_rows, row_num, quotes, csv_result>>
envVars == <<simulation_thread, created, started, start_pc, sim_pc, sim_read,
             lock_owner, current_time, set_pc, set_arg, set_count, last_set,
             ticks_since, sleep_pc, until_time, until_date_time, sleep_from,
             returned_at, host_offset>>
vars == <<performanceVars, quoteVars, cacheVars, csvVars, envVars>>

\* no object of the component exists
Unused == [kind |-> "unused"]

PerformanceUnused ==
    /\ pc = "unused"
    /\ error = "none"
    /\ performances = <<>>
    /\ annualized_factor = 0
    /\ risk_free_return = Zero
    /\ minimal_acceptable_return = Zero
    /\ input_shape = "records"
    /\ n_periods = None
    /\ sharpe_ratio = None
    /\ sortino_ratio = None
    /\ cumulative_performance = <<>>
    /\ maximum_drawdown = None
    /\ annual_return = None
    /\ longest_drawdown = None
    /\ l_cumulative_performance = <<>>
    /\ i = 0
    /\ l_longest_drawdown = 0
    /\ max_performance = One
    /\ max_performance_index = 0
    /\ min_performance = One

EnvUnused ==
    /\ simulation_thread = 0
    /\ created = {}
    /\ started = {}
    /\ start_pc = <<>>
    /\ sim_pc = <<>>
    /\ sim_read = <<>>
    /\ lock_owner = 0
    /\ current_time = -1
    /\ set_pc = "unused"
    /\ set_arg = 0
    /\ set_count = 0
    /\ last_set = -1
    /\ ticks_since = 0
    /\ sleep_pc = "unused"
    /\ until_time = 0
    /\ until_date_time = 0
    /\ sleep_from = -1
    /\ returned_at = -1
    /\ host_offset = 0

QuoteUnused ==
    /\ quote_class = "unused"
    /\ info_dict = Unused
    /\ original_dict = Unused
    /\ first_quote = Unused
    /\ quote = Unused
    /\ n_calls = 0
    /\ serialized = Unused
    /\ restored = Unused

CacheUnused ==
    /\ cached_quote = Unused
    /\ hub_quote = Unused
    /\ hub_source = "unused"
    /\ update_outcome = "unused"
    /\ first_update = Unused
    /\ last_price_update = Unused

CsvUnused ==
    /\ csv_rows = <<>>
    /\ row_num = 0
    /\ quotes = <<>>
    /\ csv_result = "unused"

\* the caller's arguments, before the constructor body runs
InitArguments ==
    /\ pc = "init"
    /\ error = "none"
    /\ performances \in ReturnSeries
    /\ annualized_factor \in AnnualizedFactors
    /\ risk_free_return \in RiskFreeReturns
    /\ minimal_acceptable_return \in MinimalAcceptableReturns
    /\ n_periods = None
    /\ sharpe_ratio = None
    /\ sortino_ratio = None
    /\ cumulative_performance = <<>>   \* not assigned yet
    /\ maximum_drawdown = None
    /\ annual_return = None
    /\ longest_drawdown = None
    /\ l_cumulative_performance = <<>>
    /\ i = 0
    /\ l_longest_drawdown = 0
    /\ max_performance = One
    /\ max_performance_index = 0
    /\ min_performance = One
    /\ QuoteUnused
    /\ CacheUnused
    /\ CsvUnused
    /\ EnvUnused

\* performances: List[Performance], as the signature declares
Init == InitArguments /\ input_shape = "records"

\* performances of either shape
InitShapes == InitArguments /\ input_shape \in InputShapes

\* __init__, lines 45-48
Construct ==
    /\ UNCHANGED <<quoteVars, cacheVars, csvVars, envVars>>
    /\ pc = "init"
    /\ n_periods' = IntVal(Len(performances))
    /\ pc' = "sharpe"
    /\ UNCHANGED <<error, inputs, attrs, l_cumulative_performance, scan>>

\* self.sharpe_ratio = self._get_sharpe_ratio()
SharpeStep ==
    /\ UNCHANGED <<quoteVars, cacheVars, csvVars, envVars>>
    /\ pc = "sharpe"
    /\ LET returns == AbsoluteReturns(performances, input_shape)
           v == IF returns.kind = "raise" THEN returns
                ELSE GetSharpeRatio(returns.val, annualized_factor)
       IN  IF v.kind = "raise"
           THEN /\ pc' = "raised"
                /\ error' = v.error
                /\ UNCHANGED sharpe_ratio
           ELSE /\ pc' = "sortino"
                /\ sharpe_ratio' = v
                /\ UNCHANGED error
    /\ UNCHANGED <<inputs, n_periods, sortino_ratio, cumulative_performance,
                   maximum_drawdown, annual_return, longest_drawdown,
                   l_cumulative_performance, scan>>

\* the sortino ratio stored under the name of the sharpe ratio
SortinoStepIntoSharpe ==
    /\ UNCHANGED <<quoteVars, cacheVars, csvVars, envVars>>
    /\ pc = "sortino"
    /\ sharpe_ratio' = GetSortinoRatio(performances, Mar, annualized_factor)
    /\ pc' = "cum"
    /\ UNCHANGED <<error, inputs, n_periods, sortino_ratio,
                   cumulative_performance, maximum_drawdown, annual_return,
                   longest_drawdown, l_cumulative_performance, scan>>

\* self.sortino_ratio = self._get_sortino_ratio(mar=Decimal('0.07'))
SortinoStep ==
    /\ UNCHANGED <<quoteVars, cacheVars, csvVars, envVars>>
    /\ pc = "sortino"
    /\ sortino_ratio' = GetSortinoRatio(performances, Mar, annualized_factor)
    /\ pc' = "cum"
    /\ UNCHANGED <<error, inputs, n_periods, sharpe_ratio,
                   cumulative_performance, maximum_drawdown, annual_return,
                   longest_drawdown, l_cumulative_performance, scan>>

\* cumulative_performance = [Decimal('1')]
CumulativeStart ==
    /\ UNCHANGED <<quoteVars, cacheVars, csvVars, envVars>>
    /\ pc = "cum"
    /\ l_cumulative_performance' = <<One>>
    /\ pc' = "cum_loop"
    /\ UNCHANGED <<error, inputs, n_periods, attrs, scan>>

\* for performance in self.performances: cumulative_performance.append(...)
CumulativeLoop ==
    /\ UNCHANGED <<quoteVars, cacheVars, csvVars, envVars>>
    /\ pc = "cum_loop"
    /\ Len(l_cumulative_performance) <= Len(performances)
    /\ l_cumulative_performance' =
           CumulativeAppend(l_cumulative_performance,
                            performances[Len(l_cumulative_performance)])
    /\ UNCHANGED <<pc, error, inputs, n_periods, attrs, scan>>

\* return cumulative_performance, assigned to self.cumulative_performance
CumulativeReturn ==
    /\ UNCHANGED <<quoteVars, cacheVars, csvVars, envVars>>
    /\ pc = "cum_loop"
    /\ Len(l_cumulative_performance) > Len(performances)
    /\ cumulative_performance' = l_cumulative_performance
    /\ pc' = "mdd"
    /\ UNCHANGED <<error, inputs, n_periods, sharpe_ratio, sortino_ratio,
                   maximum_drawdown, annual_return, longest_drawdown,
                   l_cumulative_performance, scan>>

\* self.maximum_drawdown = self._get_maximum_drawdown()
MaximumDrawdownStep ==
    /\ UNCHANGED <<quoteVars, cacheVars, csvVars, envVars>>
    /\ pc = "mdd"
    /\ LET v == GetMaximumDrawdown(cumulative_performance)
       IN  IF v.kind = "raise"
           THEN /\ pc' = "raised"
                /\ error' = v.error
                /\ UNCHANGED maximum_drawdown
           ELSE /\ pc' = "annual"
                /\ maximum_drawdown' = v
                /\ UNCHANGED error
    /\ UNCHANGED <<inputs, n_periods, sharpe_ratio, sortino_ratio,
                   cumulative_performance, annual_return, longest_drawdown,
                   l_cumulative_performance, scan>>

\* a failure of _get_annual_return swallowed, the attribute left None
AnnualReturnStepSwallow ==
    /\ UNCHANGED <<quoteVars, cacheVars, csvVars, envVars>>
    /\ pc = "annual"
    /\ LET v == GetAnnualReturn(cumulative_performance, annualized_factor,
                                Len(performances))
       IN  annual_return' = IF v.kind = "raise" THEN None ELSE v
    /\ pc' = "longest"
    /\ UNCHANGED <<error, inputs, n_periods, sharpe_ratio, sortino_ratio,
                   cumulative_performance, maximum_drawdown, longest_drawdown,
                   l_cumulative_performance, scan>>

\* self.annual_return = self._get_annual_return()
AnnualReturnStep ==
    /\ UNCHANGED <<quoteVars, cacheVars, csvVars, envVars>>
    /\ pc = "annual"
    /\ LET v == GetAnnualReturn(cumulative_performance, annualized_factor,
                                Len(performances))
       IN  IF v.kind = "raise"
           THEN /\ pc' = "raised"
                /\ error' = v.error
                /\ UNCHANGED annual_return
           ELSE /\ pc' = "longest"
                /\ annual_return' = v
                /\ UNCHANGED error
    /\ UNCHANGED <<inputs, n_periods, sharpe_ratio, sortino_ratio,
                   cumulative_performance, maximum_drawdown, longest_drawdown,
                   l_cumulative_performance, scan>>

\* _get_longest_drawdown, lines 114-117 and the first value of range(1, len)
LongestStart ==
    /\ UNCHANGED <<quoteVars, cacheVars, csvVars, envVars>>
    /\ pc = "longest"
    /\ l_longest_drawdown' = 0
    /\ max_performance' = One
    /\ max_performance_index' = 0
    /\ min_performance' = One
    /\ i' = 1
    /\ pc' = "longest_loop"
    /\ UNCHANGED <<error, inputs, n_periods, attrs, l_cumulative_performance>>

\* one iteration of the scan, lines 119-126; cumulative_performance[i] of
\* the 0-based list is element i + 1 of the sequence
LongestLoop ==
    /\ UNCHANGED <<quoteVars, cacheVars, csvVars, envVars>>
    /\ pc = "longest_loop"
    /\ i < Len(cumulative_performance)
    /\ LET c == cumulative_performance[i + 1]
       IN  IF ExceedsPeak(c, max_performance)
           THEN /\ max_performance' = c
                /\ min_performance' = c
                /\ max_performance_index' = i
                /\ UNCHANGED l_longest_drawdown
           ELSE IF SetsNewTrough(c, min_performance)
                THEN /\ min_performance' = c
                     /\ l_longest_drawdown' =
                            LongestUpdate(l_longest_drawdown, i,
                                          max_performance_index)
                     /\ UNCHANGED <<max_performance, max_performance_index>>
                ELSE UNCHANGED <<max_performance, max_performance_index,
                                 min_performance, l_longest_drawdown>>
    /\ i' = i + 1
    /\ UNCHANGED <<pc, error, inputs, n_periods, attrs,
                   l_cumulative_performance>>

\* return longest_drawdown, assigned to self.longest_drawdown; __init__ returns
LongestReturn ==
    /\ UNCHANGED <<quoteVars, cacheVars, csvVars, envVars>>
    /\ pc = "longest_loop"
    /\ i >= Len(cumulative_performance)
    /\ longest_drawdown' = IntVal(l_longest_drawdown)
    /\ pc' = "done"
    /\ UNCHANGED <<error, inputs, n_periods, sharpe_ratio, sortino_ratio,
                   cumulative_performance, maximum_drawdown, annual_return,
                   l_cumulative_performance, scan>>

Next ==
    \/ Construct
    \/ SharpeStep
    \/ SortinoStep
    \/ CumulativeStart
    \/ CumulativeLoop
    \/ CumulativeReturn
    \/ MaximumDrawdownStep
    \/ AnnualReturnStep
    \/ LongestStart
    \/ LongestLoop
    \/ LongestReturn

Spec == Init /\ [][Next]_vars

\* either input shape handed to the constructor
SpecShapes == InitShapes /\ [][Next]_vars

\* value a holder of the report assigns to one of its attributes
AssignedValue == DecVal(One)

\* report.<name> = value by any holder of a constructed report: the class
\* defines no __slots__, __setattr__ or read-only property
SetAttribute ==
    /\ UNCHANGED <<quoteVars, cacheVars, csvVars, envVars>>
    /\ pc = "done"
    /\ \E name \in 1..6 :
          /\ sharpe_ratio' = IF name = 1 THEN AssignedValue ELSE sharpe_ratio
          /\ sortino_ratio' = IF name = 2 THEN AssignedValue ELSE sortino_ratio
          /\ cumulative_performance' =
                 IF name = 3 THEN <<One>> ELSE cumulative_performance
          /\ maximum_drawdown' =
                 IF name = 4 THEN AssignedValue ELSE maximum_drawdown
          /\ annual_return' = IF name = 5 THEN AssignedValue ELSE annual_return
          /\ longest_drawdown' =
                 IF name = 6 THEN IntVal(0) ELSE longest_drawdown
    /\ UNCHANGED <<pc, error, inputs, n_periods, l_cumulative_performance,
                   scan>>

\* what the expression PerformanceHistory(...) hands to its caller
Report ==
    IF pc = "done"
    THEN [kind |-> "report", sharpe_ratio |-> sharpe_ratio,
          sortino_ratio |-> sortino_ratio,
          cumulative_performance |-> cumulative_performance,
          maximum_drawdown |-> maximum_drawdown,
          annual_return |-> annual_return,
          longest_drawdown |-> longest_drawdown]
    ELSE None

NextShared == Next \/ SetAttribute

\* a constructed report held by callers that may assign its attributes
SpecShared == Init /\ [][NextShared]_vars

\* ------------------------------------------------------------------ claims
NPeriods == Len(performances)

\* every r_i > -1 and N >= 1 (annualized_factor is positive in every state)
ValidInput ==
    /\ NPeriods >= 1
    /\ \A k \in 1..NPeriods : RLess(Dec(-1, 1), performances[k])

CumulativeAssigned == cumulative_performance # <<>>

\* C1: once cumulative_performance is assigned it has N+1 entries, entry 0 is
\* exactly 1 and every entry i >= 1 is entry i-1 times (1 + r_i).
ThmC1 ==
    CumulativeAssigned =>
        /\ Len(cumulative_performance) = NPeriods + 1
        /\ cumulative_performance[1] = One
        /\ \A k \in 1..NPeriods :
               cumulative_performance[k + 1] =
                   RMul(cumulative_performance[k], RAdd(One, performances[k]))

WitC1 ==
    /\ pc = "mdd"
    /\ performances = ScenarioB
    /\ cumulative_performance =
           <<One, Dec(11, 10), Dec(1045, 1000), Dec(11495, 10000)>>

\* C2 (as claimed): for returns [0.1, -0.05, 0.1] the reported longest
\* drawdown period is 2.
CexC2 ==
    (pc = "done" /\ performances = ScenarioB) => longest_drawdown = IntVal(2)

\* C2 (amended): for returns [0.1, -0.05, 0.1] the reported longest drawdown
\* period is 1, the distance from the peak at index 1 to the trough at index 2.
ThmC2 ==
    (pc = "done" /\ performances = ScenarioB) => longest_drawdown = IntVal(1)

WitC2 ==
    /\ pc = "done"
    /\ performances = ScenarioB
    /\ annualized_factor = 3
    /\ longest_drawdown.kind = "int"

\* C3: for every valid return series (N >= 1, every r_i > -1, positive
\* annualized_factor) construction completes without raising.
CexC3 == ValidInput => pc # "raised"

\* no return is below the period threshold mar / annualized_factor
NoneBelowMar ==
    \A k \in 1..NPeriods :
        ~RLess(performances[k], RDiv(Mar, <<annualized_factor, 1>>))

DegenerateSeries ==
    NPeriods <= 1 \/ \A k \in 1..NPeriods : performances[k] = Zero

CexC5 ==
    pc = "done" =>
        /\ \A k \in 1..NPeriods : RLess(Dec(-1, 1), performances[k])
        /\ \A k \in 1..Len(cumulative_performance) :
               RLess(Zero, cumulative_performance[k])

CexC7 ==
    annual_return.kind # "none" =>
        RLess(Zero, cumulative_performance[Len(cumulative_performance)])

\* running peak and drawdown at 1-based position k, stated from the path
PeakAt(k) ==
    CHOOSE p \in {cumulative_performance[j] : j \in 1..k} :
        \A j \in 1..k : RLeq(cumulative_performance[j], p)

DrawdownOf(k) ==
    RDiv(RSub(cumulative_performance[k], PeakAt(k)), PeakAt(k))

\* C8: maximum_drawdown is the minimum over all indices of
\* (cum[i] - peak[i]) / peak[i] with peak[i] the maximum of cum[0..i]; for
\* returns [0.1, -0.05, 0.1] it is exactly -0.05.
ThmC8 ==
    maximum_drawdown.kind # "none" =>
        /\ maximum_drawdown.kind = "dec"
        /\ \E k \in 1..Len(cumulative_performance) :
               maximum_drawdown.val = DrawdownOf(k)
        /\ \A k \in 1..Len(cumulative_performance) :
               RLeq(maximum_drawdown.val, DrawdownOf(k))
        /\ performances = ScenarioB => maximum_drawdown.val = Dec(-1, 20)

WitC8 ==
    /\ performances = ScenarioB
    /\ maximum_drawdown = DecVal(Dec(-5, 100))

\* C9: the reported maximum_drawdown is <= 0 for every return series.
ThmC9 ==
    maximum_drawdown.kind # "none" => RLeq(maximum_drawdown.val, Zero)

WitC9 ==
    /\ maximum_drawdown.kind = "dec"
    /\ RLess(maximum_drawdown.val, Zero)
    /\ ValidInput

\* C10: the reported longest drawdown period is an integer in 0..N.
ThmC10 ==
    longest_drawdown.kind # "none" =>
        /\ longest_drawdown.kind = "int"
        /\ longest_drawdown.val \in 0..NPeriods

WitC10 ==
    /\ pc = "done"
    /\ NPeriods >= 2
    /\ longest_drawdown = IntVal(NPeriods)

\* the cumulative value path never falls
NonDecreasing ==
    /\ CumulativeAssigned
    /\ \A k \in 1..(Len(cumulative_performance) - 1) :
           RLeq(cumulative_performance[k], cumulative_performance[k + 1])

\* C11: if the cumulative value path is non-decreasing, maximum_drawdown is
\* exactly 0 and the longest drawdown period is 0.
ThmC11 ==
    NonDecreasing =>
        /\ maximum_drawdown.kind # "none" => maximum_drawdown = DecVal(Zero)
        /\ longest_drawdown.kind # "none" => longest_drawdown = IntVal(0)

WitC11 ==
    /\ pc = "done"
    /\ NonDecreasing
    /\ NPeriods >= 2
    /\ RLess(One, cumulative_performance[2])
    /\ maximum_drawdown = DecVal(Zero)
    /\ longest_drawdown = IntVal(0)

AllReturnsZero ==
    NPeriods >= 1 /\ \A k \in 1..NPeriods : performances[k] = Zero

\* Decimal(math.pow(1, y)) - 1 is exactly 0 for every exponent y
AnnualReturnIsZero ==
    annual_return.kind = "powm1" /\ annual_return.base = One

\* C12: if every return is 0 (N >= 1) construction does not raise and
\* sharpe_ratio, sortino_ratio, maximum_drawdown, annual_return and the longest
\* drawdown period are all exactly 0, each from the moment it is assigned.
ThmC12 ==
    AllReturnsZero =>
        /\ pc # "raised"
        /\ pc \notin {"init", "sharpe"} => sharpe_ratio = DecVal(Zero)
        /\ pc \notin {"init", "sharpe", "sortino"} =>
               sortino_ratio = DecVal(Zero)
        /\ maximum_drawdown.kind # "none" => maximum_drawdown = DecVal(Zero)
        /\ annual_return.kind # "none" => AnnualReturnIsZero
        /\ longest_drawdown.kind # "none" => longest_drawdown = IntVal(0)

WitC12 ==
    /\ pc = "done"
    /\ AllReturnsZero
    /\ NPeriods >= 2
    /\ AnnualReturnIsZero

\* C13: when N <= 1 or all returns equal 0, the Sharpe and the Sortino
\* computations both return exactly 0: neither raises, neither is +Infinity.
ThmC13 ==
    DegenerateSeries =>
        /\ pc \notin {"init", "sharpe"} => sharpe_ratio = DecVal(Zero)
        /\ pc \notin {"init", "sharpe", "sortino"} =>
               sortino_ratio = DecVal(Zero)

WitC13 ==
    /\ pc = "cum"
    /\ performances = <<Dec(1, 2)>>
    /\ sharpe_ratio = DecVal(Zero)
    /\ sortino_ratio = DecVal(Zero)

\* C14: the Sharpe ratio is computed with the caller's risk_free_return and
\* the Sortino ratio with the caller's minimal_acceptable_return.
CexC14 ==
    /\ sharpe_ratio.kind = "ratio" =>
           sharpe_ratio.excess =
               RSub(Mean(performances),
                    RDiv(risk_free_return, <<annualized_factor, 1>>))
    /\ sortino_ratio.kind = "ratio" =>
           sortino_ratio.excess =
               RSub(Mean(performances),
                    RDiv(minimal_acceptable_return, <<annualized_factor, 1>>))

\* C15: a flat sequence of decimal returns is accepted like the sequence of
\* period records with the same values: its construction does not fail on
\* reading absolute_return.
CexC15 == input_shape = "flat" => error # "AttributeError"

\* C16: once the report is constructed, no later operation changes any of
\* its metric fields.
CexC16 == [][pc = "done" => attrs' = attrs]_vars


\* ------------------------------------------------- quote data model: values
\* bound on the from_dict calls made on one dictionary
MaxCalls == 3

\* key missing from a dictionary
Absent == [kind |-> "absent"]
\* str that spells no number
PyStr(s) == [kind |-> "str", val |-> s]
\* str spelling the decimal numeral coef * 10^exp
NumStr(c, e) == [kind |-> "numstr", coef |-> c, exp |-> e]
\* float whose repr is coef * 10^exp, exp <= -1
PyFloat(c, e) == [kind |-> "float", coef |-> c, exp |-> e]
\* decimal.Decimal with coefficient coef and exponent exp
PyDecimal(c, e) == [kind |-> "decimal", coef |-> c, exp |-> e]
\* plutus.core.instrument.Instrument with the given id
InstrumentObj(id) == [kind |-> "instrument", id |-> id]

StrKinds == {"str", "numstr"}
NumberKinds == {"int", "float", "decimal"}

\* str(value)
StrOf(v) ==
    CASE v.kind \in StrKinds -> v
      [] v.kind = "int" -> NumStr(v.val, 0)
      [] v.kind \in {"float", "decimal"} -> NumStr(v.coef, v.exp)

\* Decimal(s) of a str
DecimalOf(s) ==
    IF s.kind = "numstr" THEN PyDecimal(s.coef, s.exp)
    ELSE Raise("InvalidOperation")

\* int(value) of a str or a float
IntOf(v) ==
    CASE v.kind = "numstr" ->
             IF v.exp = 0 THEN IntVal(v.coef) ELSE Raise("ValueError")
      [] v.kind = "str" -> Raise("ValueError")
      [] v.kind = "float" ->
             IF v.coef >= 0 THEN IntVal(v.coef \div (10 ^ (0 - v.exp)))
             ELSE IntVal(0 - ((0 - v.coef) \div (10 ^ (0 - v.exp))))

\* float(value) of an int or a float
FloatOf(v) == IF v.kind = "int" THEN PyFloat(10 * v.val, -1) ELSE v

\* a == b on two values
ValueEq(a, b) ==
    IF a.kind \in NumberKinds /\ b.kind \in NumberKinds
    THEN LET ea == IF a.kind = "int" THEN 0 ELSE a.exp
             eb == IF b.kind = "int" THEN 0 ELSE b.exp
             ca == IF a.kind = "int" THEN a.val ELSE a.coef
             cb == IF b.kind = "int" THEN b.val ELSE b.coef
             m == IF ea < eb THEN ea ELSE eb
         IN  ca * (10 ^ (ea - m)) = cb * (10 ^ (eb - m))
    ELSE a = b

\* ---------------------------------------------- quote data model: the classes
QuoteClasses == {"Quote", "QuoteNamedTuple"}
CoreFields == {"instrument", "timestamp", "source"}
\* the optional fields followed here: a price, a quantity, the string field
MarketFields == {"ref_price", "bid_qty_1", "maturity_date"}
FieldOrder == <<"ref_price", "bid_qty_1", "maturity_date">>
QuoteDecimalAttributes == {"ref_price"}
QuantityAttributes == {"bid_qty_1"}
\* every key a caller's dictionary may carry; "note" names no field
DictKeys == CoreFields \cup MarketFields \cup {"note"}

\* _validate_and_convert_value(field_name, value)
ValidateAndConvertValue(field_name, value) ==
    IF field_name \in QuoteDecimalAttributes
    THEN IF value.kind = "decimal" THEN value
         ELSE IF value.kind \in StrKinds \cup {"int", "float"}
              THEN LET d == DecimalOf(StrOf(value))
                   IN  IF d.kind = "raise" THEN Raise("ValueError") ELSE d
              ELSE Raise("TypeError")
    ELSE IF field_name \in QuantityAttributes
    THEN IF value.kind = "int" THEN value
         ELSE IF value.kind \in StrKinds \cup {"float"}
              THEN IntOf(value)
              ELSE Raise("TypeError")
    ELSE IF field_name = "maturity_date" THEN StrOf(value)
    ELSE value

\* Quote(**data) and create_quote_nt(**data)
CreateQuote(cls, data) ==
    IF data.instrument.kind # "instrument" THEN Raise("TypeError")
    ELSE IF data.timestamp.kind \notin {"int", "float"} THEN Raise("TypeError")
    ELSE IF data.source.kind \notin StrKinds THEN Raise("TypeError")
    ELSE LET conv == [f \in MarketFields |->
                        IF data[f].kind \in {"absent", "none"} THEN None
                        ELSE ValidateAndConvertValue(f, data[f])]
             failed == {k \in 1..Len(FieldOrder) :
                           conv[FieldOrder[k]].kind = "raise"}
         IN  IF failed # {}
             THEN conv[FieldOrder[CHOOSE k \in failed :
                                      \A j \in failed : k <= j]]
             ELSE [kind |-> "quote", class |-> cls,
                   instrument |-> data.instrument,
                   timestamp |-> FloatOf(data.timestamp),
                   source |-> data.source,
                   fields |-> conv]

\* Instrument.from_id(instrument_id)
InstrumentFromId(v) ==
    IF v.kind = "str" THEN InstrumentObj(v.val) ELSE Raise("AttributeError")

\* to_dict that writes every field, None included
ToDictKeepNone(q) ==
    [k \in DictKeys |->
        CASE k = "instrument" -> PyStr(q.instrument.id)
          [] k = "timestamp" -> q.timestamp
          [] k = "source" -> q.source
          [] k \in MarketFields ->
                 IF q.fields[k].kind = "decimal" THEN StrOf(q.fields[k])
                 ELSE q.fields[k]
          [] OTHER -> Absent]

\* q.to_dict()
ToDict(q) ==
    [k \in DictKeys |->
        CASE k = "instrument" -> PyStr(q.instrument.id)
          [] k = "timestamp" -> q.timestamp
          [] k = "source" -> q.source
          [] k \in MarketFields ->
                 IF q.fields[k].kind = "none" THEN Absent
                 ELSE IF q.fields[k].kind = "decimal" THEN StrOf(q.fields[k])
                 ELSE q.fields[k]
          [] OTHER -> Absent]

\* from_dict that converts the instrument inside the caller's dictionary
FromDictInPlace(cls, d) ==
    LET inst == IF cls = "QuoteNamedTuple" /\ d.instrument.kind \notin StrKinds
                THEN d.instrument
                ELSE InstrumentFromId(d.instrument)
        data == [d EXCEPT !.instrument = inst]
    IN  IF inst.kind = "raise" THEN [dict |-> d, result |-> inst]
        ELSE [dict |-> data, result |-> CreateQuote(cls, data)]

\* cls.from_dict(info_dict): the dictionary afterwards and what is returned
FromDict(cls, d) ==
    LET inst == IF cls = "QuoteNamedTuple" /\ d.instrument.kind \notin StrKinds
                THEN d.instrument
                ELSE InstrumentFromId(d.instrument)
        data_copy == [d EXCEPT !.instrument = inst]
    IN  IF inst.kind = "raise" THEN [dict |-> d, result |-> inst]
        ELSE [dict |-> d, result |-> CreateQuote(cls, data_copy)]

\* a == b on two quotes of one class
QuoteEq(a, b) ==
    /\ a.kind = "quote"
    /\ b.kind = "quote"
    /\ a.class = b.class
    /\ a.instrument = b.instrument
    /\ ValueEq(a.timestamp, b.timestamp)
    /\ a.source = b.source
    /\ \A f \in MarketFields : ValueEq(a.fields[f], b.fields[f])

\* --------------------------------------------- quote data model: the callers
InstrumentIds == {PyStr("HSX:VIC"), PyStr("HNX:SHS")}
Timestamps == {IntVal(1000), PyFloat(10005, -1)}
\* "110.0", "110", 1.5, 3, Decimal("110.5"), "abc"
PriceValues == {Absent, None, NumStr(1100, -1), NumStr(110, 0), PyFloat(15, -1),
                IntVal(3), PyDecimal(1105, -1), PyStr("abc")}
\* 7, "7", 1.9, "1.5"
QuantityValues == {Absent, None, IntVal(7), NumStr(7, 0), PyFloat(19, -1),
                   NumStr(15, -1)}
MaturityValues == {Absent, IntVal(202406)}
NoteValues == {Absent, PyStr("x")}

InfoDicts ==
    { [instrument |-> a, timestamp |-> t, source |-> PyStr("CSV"),
       ref_price |-> p, bid_qty_1 |-> n, maturity_date |-> m, note |-> x] :
      a \in InstrumentIds, t \in Timestamps, p \in PriceValues,
      n \in QuantityValues, m \in MaturityValues, x \in NoteValues }

\* a dictionary as a tagged value
DictVal(d) == [kind |-> "dict", items |-> d]

InitQuote ==
    /\ PerformanceUnused
    /\ CacheUnused
    /\ CsvUnused
    /\ EnvUnused
    /\ quote_class \in QuoteClasses
    /\ info_dict \in InfoDicts
    /\ original_dict = info_dict
    /\ first_quote = None
    /\ quote = None
    /\ n_calls = 0
    /\ serialized = None
    /\ restored = None

\* quote = quote_class.from_dict(info_dict)
FromDictCall ==
    /\ n_calls < MaxCalls
    /\ LET r == FromDict(quote_class, info_dict)
       IN  /\ info_dict' = r.dict
           /\ quote' = r.result
           /\ first_quote' = IF n_calls = 0 THEN r.result ELSE first_quote
    /\ n_calls' = n_calls + 1
    /\ serialized' = None
    /\ restored' = None
    /\ UNCHANGED <<quote_class, original_dict>>
    /\ UNCHANGED <<performanceVars, cacheVars, csvVars, envVars>>

\* serialized = quote.to_dict()
ToDictCall ==
    /\ quote.kind = "quote"
    /\ serialized.kind = "none"
    /\ serialized' = DictVal(ToDict(quote))
    /\ UNCHANGED <<quote_class, info_dict, original_dict, first_quote, quote,
                   n_calls, restored>>
    /\ UNCHANGED <<performanceVars, cacheVars, csvVars, envVars>>

\* restored = quote_class.from_dict(serialized)
FromDictSerialized ==
    /\ serialized.kind = "dict"
    /\ restored.kind = "none"
    /\ LET r == FromDict(quote_class, serialized.items)
       IN  /\ serialized' = DictVal(r.dict)
           /\ restored' = r.result
    /\ UNCHANGED <<quote_class, info_dict, original_dict, first_quote, quote,
                   n_calls>>
    /\ UNCHANGED <<performanceVars, cacheVars, csvVars, envVars>>

NextQuote ==
    \/ FromDictCall
    \/ ToDictCall
    \/ FromDictSerialized

SpecQuote == InitQuote /\ [][NextQuote]_vars

\* --------------------------------------------------------- claims C17, C18
\* every value of the dictionary is one its field converts
Convertible(d) ==
    /\ d.ref_price.kind \in {"absent", "none", "numstr", "int", "float",
                             "decimal"}
    /\ \/ d.bid_qty_1.kind \in {"absent", "none", "int", "float"}
       \/ d.bid_qty_1.kind = "numstr" /\ d.bid_qty_1.exp = 0

CacheAttributes == {"instrument", "ref_price", "hidden_system_status",
                    "datetime_str", "timestamp"}
\* attributes the cache stores as they come, not as a CachedQuoteElement
DirectAttributes == {"instrument", "datetime_str", "timestamp",
                     "hidden_system_status"}

HubInstruments == {None, InstrumentObj("HSX:VIC"), InstrumentObj("HNX:SHS")}
HubDatetimes == {None, PyStr("09:00:00")}
HubTimestamps == {None, PyFloat(10, -1), PyFloat(20, -1)}
HubStatuses == {None, PyStr("OPEN")}
HubPrices == {None, PyDecimal(100, 0), PyDecimal(101, 0)}
SourceNames == {"FPTS", "HUB"}

\* InternalDataHubQuote instances
HubQuotes ==
    { [instrument |-> a, ref_price |-> p, hidden_system_status |-> h,
       datetime_str |-> d, timestamp |-> t] :
      a \in HubInstruments, p \in HubPrices, h \in HubStatuses,
      d \in HubDatetimes, t \in HubTimestamps }

\* CachedQuote(): every attribute None
NewCachedQuote == [a \in CacheAttributes |-> None]

\* CachedQuoteElement(...)
CachedQuoteElement(instrument, quote_type, value, source, str, ts) ==
    [kind |-> "element", instrument |-> instrument, quote_type |-> quote_type,
     value |-> value, source |-> source, last_updated_str |-> str,
     last_updated |-> ts]

\* the loop with an existing element keeping its old time stamps
UpdatedAttributesStaleStamp(self, q, source_name) ==
    [a \in CacheAttributes |->
        IF q[a].kind = "none" THEN self[a]
        ELSE IF a \in DirectAttributes THEN q[a]
        ELSE IF self[a].kind = "none"
             THEN CachedQuoteElement(q.instrument, a, q[a], source_name,
                                     q.datetime_str, q.timestamp)
             ELSE [self[a] EXCEPT !.value = q[a],
                                  !.source = source_name]]

\* the loop over vars(quote).items(), lines 546-574
UpdatedAttributes(self, q, source_name) ==
    [a \in CacheAttributes |->
        IF q[a].kind = "none" THEN self[a]
        ELSE IF a \in DirectAttributes THEN q[a]
        ELSE IF self[a].kind = "none"
             THEN CachedQuoteElement(q.instrument, a, q[a], source_name,
                                     q.datetime_str, q.timestamp)
             ELSE [self[a] EXCEPT !.value = q[a],
                                  !.source = source_name,
                                  !.last_updated_str = q.datetime_str,
                                  !.last_updated = q.timestamp]]

\* update that stores the quote before it compares the instruments
UpdateBeforeMatch(self, q, source_name) ==
    IF \/ q.instrument.kind = "none"
       \/ q.datetime_str.kind = "none"
       \/ q.timestamp.kind = "none"
    THEN [outcome |-> "ValueError", cache |-> self]
    ELSE IF self.instrument.kind # "none" /\ self.instrument # q.instrument
    THEN [outcome |-> "ValueError",
          cache |-> UpdatedAttributes(self, q, source_name)]
    ELSE [outcome |-> "ok", cache |-> UpdatedAttributes(self, q, source_name)]

\* self.update_from_pricehub_quote(quote, source_name): how it ends and the
\* cache afterwards
UpdateFromPricehubQuote(self, q, source_name) ==
    IF \/ q.instrument.kind = "none"
       \/ q.datetime_str.kind = "none"
       \/ q.timestamp.kind = "none"
    THEN [outcome |-> "ValueError", cache |-> self]
    ELSE IF self.instrument.kind # "none" /\ self.instrument # q.instrument
    THEN [outcome |-> "ValueError", cache |-> self]
    ELSE [outcome |-> "ok", cache |-> UpdatedAttributes(self, q, source_name)]

InitCache ==
    /\ PerformanceUnused
    /\ QuoteUnused
    /\ CsvUnused
    /\ EnvUnused
    /\ cached_quote = NewCachedQuote
    /\ hub_quote = None
    /\ hub_source = "none"
    /\ update_outcome = "none"
    /\ first_update = None
    /\ last_price_update = None

UpdateCall ==
    /\ \E q \in HubQuotes, source_name \in SourceNames :
          LET r == UpdateFromPricehubQuote(cached_quote, q, source_name)
          IN  /\ cached_quote' = r.cache
              /\ update_outcome' = r.outcome
              /\ hub_quote' = q
              /\ hub_source' = source_name
              /\ first_update' =
                     IF r.outcome = "ok" /\ first_update.kind = "none"
                     THEN q.instrument ELSE first_update
              /\ last_price_update' =
                     IF r.outcome = "ok" /\ q.ref_price.kind # "none"
                     THEN [kind |-> "update", value |-> q.ref_price,
                           source |-> source_name,
                           last_updated_str |-> q.datetime_str,
                           last_updated |-> q.timestamp]
                     ELSE last_price_update
    /\ UNCHANGED <<performanceVars, quoteVars, csvVars, envVars>>

NextCache == UpdateCall

SpecCache == InitCache /\ [][NextCache]_vars

\* ---------------------------------------------------------------- claim C19
\* the quote lacks a required attribute, or names another instrument than
\* the one the cache holds
Rejected(cache, q) ==
    \/ q.instrument.kind = "none"
    \/ q.datetime_str.kind = "none"
    \/ q.timestamp.kind = "none"
    \/ cache.instrument.kind # "none" /\ cache.instrument # q.instrument

\* C19: an update with a quote that lacks instrument, datetime_str or
\* timestamp, or whose instrument differs from the cached one, raises
\* ValueError and leaves every attribute of the cache and of its elements as
\* it was
ThmC19 ==
    [][Rejected(cached_quote, hub_quote') =>
          /\ update_outcome' = "ValueError"
          /\ cached_quote' = cached_quote]_vars

WitC19 ==
    /\ update_outcome = "ValueError"
    /\ cached_quote.ref_price.kind = "element"
    /\ hub_quote.instrument.kind = "instrument"
    /\ hub_quote.datetime_str.kind # "none"
    /\ hub_quote.timestamp.kind # "none"
    /\ hub_quote.ref_price.kind # "none"
    /\ hub_quote.instrument # cached_quote.instrument

\* ----------------------------------------------------------- CSV ingestion
\* bound on the data rows of a file
MaxRows == 2

\* cells of quote_reference.csv, header datetime,tickersymbol,price; None is
\* what csv.DictReader stores for a column the line is too short to reach
DatetimeCells == {PyStr(""), PyStr("1970-01-02"), PyStr("invalid_date")}
TickerCells == {None, PyStr(""), PyStr("  "), PyStr("VIC"), PyStr("HPG")}
PriceCells == {None, NumStr(4305, -2), PyStr("invalid_price")}

CsvRows ==
    { row \in [datetime : DatetimeCells, tickersymbol : TickerCells,
               price : PriceCells] :
          row.tickersymbol.kind = "none" => row.price.kind = "none" }

RECURSIVE CsvFilesOfLength(_)
CsvFilesOfLength(n) ==
    IF n = 0 THEN {<<>>}
    ELSE {Append(f, r) : f \in CsvFilesOfLength(n - 1), r \in CsvRows}

CsvFiles == UNION {CsvFilesOfLength(n) : n \in 0..MaxRows}

\* bool(cell)
Truthy(cell) == cell.kind # "none" /\ cell # PyStr("")

\* s.strip()
Strip(s) == IF s = PyStr("  ") THEN PyStr("") ELSE s

\* datetime.strptime(..., fmt) then dt.timestamp(), UTC
Strptime(s) ==
    IF s = PyStr("1970-01-02") THEN PyFloat(864000, -1)
    ELSE Raise("ValueError")

\* _parse_timestamp(timestamp_str)
ParseTimestamp(timestamp_str) ==
    IF ~Truthy(timestamp_str) THEN None
    ELSE LET t == Strptime(timestamp_str)
         IN  IF t.kind = "raise" THEN None ELSE t

\* _parse_decimal(value_str)
ParseDecimal(value_str) ==
    IF ~Truthy(value_str) \/ Strip(value_str) = PyStr("") THEN None
    ELSE LET d == DecimalOf(Strip(value_str))
         IN  IF d.kind = "raise" THEN None ELSE d

\* _determine_exchange(ticker_symbol)
DetermineExchange(ticker_symbol) == "HSX"

\* Instrument.from_id(f"{exchange}:{ticker_symbol}")
InstrumentOfTicker(exchange, ticker_symbol) ==
    IF exchange = "HSX" /\ ticker_symbol = PyStr("VIC")
    THEN InstrumentObj("HSX:VIC")
    ELSE IF exchange = "HSX" /\ ticker_symbol = PyStr("HPG")
    THEN InstrumentObj("HSX:HPG")
    ELSE InstrumentObj("other")

\* _parse_simple_field: the keywords handed to Quote
SimpleFieldKwargs(row) ==
    LET value == ParseDecimal(row.price)
    IN  [ref_price |-> IF value.kind = "none" THEN Absent ELSE value,
         bid_qty_1 |-> Absent, maturity_date |-> Absent, note |-> Absent]

\* _parse_csv_row(quote_type, row) for a simple price file: a quote, None
\* for a skipped row, or the exception it raises
ParseCsvRow(row) ==
    IF ~(Truthy(row.datetime) \/ Truthy(row.tickersymbol) \/ Truthy(row.price))
    THEN None
    ELSE IF row.tickersymbol.kind = "none" THEN Raise("AttributeError")
    ELSE IF ~Truthy(Strip(row.tickersymbol)) THEN None
    ELSE LET timestamp == ParseTimestamp(row.datetime)
             ticker_symbol == Strip(row.tickersymbol)
             kwargs == SimpleFieldKwargs(row)
         IN  IF timestamp.kind = "none" THEN None
             ELSE CreateQuote("Quote",
                    [instrument |->
                         InstrumentOfTicker(DetermineExchange(ticker_symbol),
                                            ticker_symbol),
                     timestamp |-> timestamp,
                     source |-> PyStr("CSV"),
                     ref_price |-> kwargs.ref_price,
                     bid_qty_1 |-> kwargs.bid_qty_1,
                     maturity_date |-> kwargs.maturity_date,
                     note |-> kwargs.note])

InitCsv ==
    /\ PerformanceUnused
    /\ QuoteUnused
    /\ CacheUnused
    /\ EnvUnused
    /\ csv_rows \in CsvFiles
    /\ row_num = 2
    /\ quotes = <<>>
    /\ csv_result = "reading"

\* one iteration of the loop over the reader, lines 139-146
ReadRow ==
    /\ csv_result = "reading"
    /\ row_num - 1 <= Len(csv_rows)
    /\ LET q == ParseCsvRow(csv_rows[row_num - 1])
       IN  IF q.kind = "raise"
           THEN /\ csv_result' = "ValueError"
                /\ UNCHANGED <<row_num, quotes>>
           ELSE /\ quotes' = IF q.kind = "quote" THEN Append(quotes, q)
                             ELSE quotes
                /\ row_num' = row_num + 1
                /\ UNCHANGED csv_result
    /\ UNCHANGED csv_rows
    /\ UNCHANGED <<performanceVars, quoteVars, cacheVars, envVars>>

\* return quotes
ReadReturn ==
    /\ csv_result = "reading"
    /\ row_num - 1 > Len(csv_rows)
    /\ csv_result' = "returned"
    /\ UNCHANGED <<csv_rows, row_num, quotes>>
    /\ UNCHANGED <<performanceVars, quoteVars, cacheVars, envVars>>

NextCsv ==
    \/ ReadRow
    \/ ReadReturn

SpecCsv == InitCsv /\ [][NextCsv]_vars

\* ---------------------------------------------------------------- claim C20
\* the row is not empty, names a ticker symbol and carries a timestamp that
\* parses
RowRemains(row) ==
    /\ row.tickersymbol.kind = "str"
    /\ Strip(row.tickersymbol) # PyStr("")
    /\ row.datetime = PyStr("1970-01-02")

RemainingRows == SelectSeq(csv_rows, RowRemains)

\* C20: read_csv_file does not fail on a malformed data row, and what it
\* returns holds one quote per row that is not empty, has a ticker symbol
\* and has a timestamp that parses, in file order
CexC20 ==
    /\ csv_result # "ValueError"
    /\ csv_result = "returned" =>
           /\ Len(quotes) = Len(RemainingRows)
           /\ \A k \in 1..Len(quotes) :
                  quotes[k].instrument =
                      InstrumentOfTicker("HSX",
                                         Strip(RemainingRows[k].tickersymbol))

\* ---------------------------------------------------------------- claim C21
\* the scan is about to process index i of the cumulative path
ScanStep == pc = "longest_loop" /\ i < Len(cumulative_performance)

\* C21: in the longest-drawdown scan the longest drawdown changes at index i
\* only when cum[i] does not exceed the running peak and is strictly below
\* the trough since that peak; a step that neither exceeds the peak nor sets
\* a new trough changes none of peak, peak index, trough and longest
\* drawdown; a step that sets a new peak leaves the longest drawdown as it was
ThmC21 ==
    [][ScanStep =>
          LET c == cumulative_performance[i + 1]
          IN  /\ l_longest_drawdown' # l_longest_drawdown =>
                     /\ RLeq(c, max_performance)
                     /\ RLess(c, min_performance)
              /\ (RLeq(c, max_performance) /\ RLeq(min_performance, c)) =>
                     /\ max_performance' = max_performance
                     /\ max_performance_index' = max_performance_index
                     /\ min_performance' = min_performance
                     /\ l_longest_drawdown' = l_longest_drawdown
              /\ RLess(max_performance, c) =>
                     /\ max_performance' = c
                     /\ l_longest_drawdown' = l_longest_drawdown]_vars

\* index 1 opened a drawdown, index 2 neither recovered nor went lower
WitC21 ==
    /\ pc = "longest_loop"
    /\ i = 3
    /\ l_longest_drawdown = 1
    /\ max_performance_index = 0
    /\ cumulative_performance[3] = min_performance

\* ---------------------------------------------------------------- claim C22
SharpeAssigned == sharpe_ratio.kind # "none"
SortinoAssigned == sortino_ratio.kind # "none"
MaximumDrawdownAssigned == maximum_drawdown.kind # "none"
AnnualReturnAssigned == annual_return.kind # "none"
LongestDrawdownAssigned == longest_drawdown.kind # "none"

AllAssigned ==
    /\ SharpeAssigned
    /\ SortinoAssigned
    /\ CumulativeAssigned
    /\ MaximumDrawdownAssigned
    /\ AnnualReturnAssigned
    /\ LongestDrawdownAssigned

\* a field that has been assigned keeps its value
AssignedOnce ==
    /\ SharpeAssigned => sharpe_ratio' = sharpe_ratio
    /\ SortinoAssigned => sortino_ratio' = sortino_ratio
    /\ CumulativeAssigned => cumulative_performance' = cumulative_performance
    /\ MaximumDrawdownAssigned => maximum_drawdown' = maximum_drawdown
    /\ AnnualReturnAssigned => annual_return' = annual_return
    /\ LongestDrawdownAssigned => longest_drawdown' = longest_drawdown

\* the fields that read the cumulative path are assigned after it
ReadersAfterCumulative ==
    (MaximumDrawdownAssigned \/ AnnualReturnAssigned \/ LongestDrawdownAssigned)
        => CumulativeAssigned

\* C22 as stated: the cumulative path is computed before the two ratios and
\* before maximum drawdown, annual return and longest drawdown; every field
\* is assigned exactly once, all of them before the constructor returns
CexC22 ==
    /\ []((SharpeAssigned \/ SortinoAssigned) => CumulativeAssigned)
    /\ [](ReadersAfterCumulative /\ (pc = "done" => AllAssigned))
    /\ [][AssignedOnce]_vars

\* C22 amended: the cumulative path is computed after the two ratios and
\* before maximum drawdown, annual return and longest drawdown, which read
\* it; every field is assigned exactly once, all of them before the
\* constructor returns
ThmC22 ==
    /\ [](CumulativeAssigned => (SharpeAssigned /\ SortinoAssigned))
    /\ [](ReadersAfterCumulative /\ (pc = "done" => AllAssigned))
    /\ [][AssignedOnce]_vars

WitC22 ==
    /\ pc = "done"
    /\ AllAssigned
    /\ NPeriods >= 2

\* ---------------------------------------------------------------- claim C23
\* the cumulative path of a return series
RECURSIVE PathOf(_)
PathOf(returns) ==
    IF Len(returns) = 0 THEN <<One>>
    ELSE LET cum == PathOf(SubSeq(returns, 1, Len(returns) - 1))
         IN  Append(cum, RMul(cum[Len(cum)], RAdd(One, returns[Len(returns)])))

\* some metric of the series cannot be computed
ComputationFails ==
    \/ GetSharpeRatio(performances, annualized_factor).kind = "raise"
    \/ GetAnnualReturn(PathOf(performances), annualized_factor,
                       Len(performances)).kind = "raise"

\* C23: when a metric computation fails, the constructor call raises and the
\* caller receives no report, whatever fields were already computed; nothing
\* runs after the failure
ThmC23 ==
    /\ [](ComputationFails => Report.kind = "none")
    /\ [](pc = "raised" => (ComputationFails /\ error # "none"))
    /\ [][pc = "raised" => vars' = vars]_vars

\* the annual return failed after four fields had been filled in
WitC23 ==
    /\ pc = "raised"
    /\ SharpeAssigned
    /\ SortinoAssigned
    /\ CumulativeAssigned
    /\ MaximumDrawdownAssigned
    /\ Report.kind = "none"

\* ---------------------------------------------------------------- claim C24
\* C24: for every return series, valid or not, every running peak of the
\* maximum-drawdown computation is at least 1, so no drawdown divides by zero
\* or by a negative number and the computation never fails
ThmC24 ==
    CumulativeAssigned =>
        /\ \A k \in 1..Len(cumulative_performance) :
               RLeq(One, RunningMax(cumulative_performance)[k])
        /\ GetMaximumDrawdown(cumulative_performance).kind # "raise"

\* a series that loses everything and more: the path ends at or below zero
WitC24 ==
    /\ MaximumDrawdownAssigned
    /\ NPeriods >= 2
    /\ \E k \in 1..Len(cumulative_performance) :
           RLess(cumulative_performance[k], Zero)
    /\ \E k \in 1..Len(cumulative_performance) :
           RLess(One, cumulative_performance[k])

\* ---------------------------------------------------------------- claim C25
\* some cumulative value lies strictly below an earlier one
SomeDrawdown ==
    \E j, k \in 1..Len(cumulative_performance) :
        j < k /\ RLess(cumulative_performance[k], cumulative_performance[j])

\* C25: for every return series whose report is built, the longest drawdown
\* is 0 exactly when maximum_drawdown is 0, and it is at least 1 exactly when
\* some cumulative value lies strictly below an earlier one
ThmC25 ==
    pc = "done" =>
        /\ (longest_drawdown.val = 0) <=> (maximum_drawdown.val = Zero)
        /\ (longest_drawdown.val >= 1) <=> SomeDrawdown

\* a drawdown that opens after a rise and lasts to the end
WitC25 ==
    /\ pc = "done"
    /\ NPeriods = 3
    /\ longest_drawdown.val = 2
    /\ RLess(maximum_drawdown.val, Zero)
    /\ RLess(One, cumulative_performance[2])

\* ---------------------------------------------------------------- claim C30
\* C30: once the scan has processed the indices up to i - 1 (i is the next
\* one), its running peak is the maximum of the processed values, its peak
\* index is the smallest index holding that maximum, and its trough is at
\* most the peak and is the minimum of the values from the peak index on
ThmC30 ==
    pc = "longest_loop" =>
        LET cum == cumulative_performance
            peak_at == max_performance_index + 1
        IN  /\ max_performance = MaxOf(SubSeq(cum, 1, i))
            /\ peak_at <= i
            /\ cum[peak_at] = max_performance
            /\ \A j \in 1..(peak_at - 1) : RLess(cum[j], max_performance)
            /\ RLeq(min_performance, max_performance)
            /\ min_performance = MinOf(SubSeq(cum, peak_at, i))

\* the scan ended with the peak at index 1 and a lower trough after it
WitC30 ==
    /\ pc = "longest_loop"
    /\ i = Len(cumulative_performance)
    /\ i = 4
    /\ max_performance_index = 1
    /\ cumulative_performance[3] = max_performance
    /\ RLess(min_performance, max_performance)

\* ---------------------------------------------------------------- claim C26
\* C26: after any sequence of updates the cached instrument is the one of
\* the first update that succeeded, the ref_price element holds the value,
\* the source and the time stamps of the latest successful update that
\* carried a ref_price, and a successful update whose ref_price is None
\* leaves the element as it was
ThmC26 ==
    /\ [](/\ first_update.kind # "none" =>
                 cached_quote.instrument = first_update
          /\ IF last_price_update.kind = "none"
             THEN cached_quote.ref_price.kind = "none"
             ELSE /\ cached_quote.ref_price.kind = "element"
                  /\ cached_quote.ref_price.value = last_price_update.value
                  /\ cached_quote.ref_price.source = last_price_update.source
                  /\ cached_quote.ref_price.last_updated_str =
                         last_price_update.last_updated_str
                  /\ cached_quote.ref_price.last_updated =
                         last_price_update.last_updated)
    /\ [][(update_outcome' = "ok" /\ hub_quote'.ref_price.kind = "none") =>
              cached_quote'.ref_price = cached_quote.ref_price]_vars

\* an element written by one source, overwritten by the other, then left
\* alone by a later update without a price
WitC26 ==
    /\ update_outcome = "ok"
    /\ hub_quote.ref_price.kind = "none"
    /\ cached_quote.ref_price.kind = "element"
    /\ cached_quote.ref_price.last_updated # cached_quote.timestamp
    /\ cached_quote.ref_price.source # hub_source
    /\ cached_quote.ref_price.value = PyDecimal(101, 0)

\* ------------------------------------------------------ simulated clock
\* bound on the simulated clock, in ticks of 0.1 s
MaxTime == 6
\* bound on the set_time calls
MaxSetTimes == 2

\* Environment.current_time is None
NoTime == -1
\* threads calling start_simulation
Starters == {1, 2}
\* Thread objects that can come to exist, one per caller at most
SimThreads == {1, 2}
\* the thread calling set_time, as a holder of the lock
SetterId == 3
\* date_time arguments of set_time
SetTimes == {0, 2}

\* with Environment.lock_current_time: the lock is free or already ours
CanAcquire(owner, me) == owner = 0 \/ owner = me

InitEnv ==
    /\ PerformanceUnused
    /\ QuoteUnused
    /\ CacheUnused
    /\ CsvUnused
    /\ simulation_thread = 0
    /\ created = {}
    /\ started = {}
    /\ start_pc = [p \in Starters |-> "call"]
    /\ sim_pc = [t \in SimThreads |-> "unborn"]
    /\ sim_read = [t \in SimThreads |-> NoTime]
    /\ lock_owner = 0
    /\ current_time = NoTime
    /\ set_pc = "idle"
    /\ set_arg = 0
    /\ set_count = 0
    /\ last_set = NoTime
    /\ ticks_since = 0
    /\ sleep_pc = "idle"
    /\ until_time = 0
    /\ until_date_time = 0
    /\ sleep_from = NoTime
    /\ returned_at = NoTime
    /\ host_offset = 0

others == <<performanceVars, quoteVars, cacheVars, csvVars>>
sleepVars == <<sleep_pc, until_time, until_date_time, sleep_from, returned_at,
               host_offset>>
setVars == <<set_pc, set_arg, set_count>>
startVars == <<simulation_thread, created, started, start_pc>>

\* start_simulation, line 48: if Environment.simulation_thread is None
StartCheck(p) ==
    /\ start_pc[p] = "call"
    /\ start_pc' = [start_pc EXCEPT ![p] =
                       IF simulation_thread = 0 THEN "create" ELSE "returned"]
    /\ UNCHANGED <<simulation_thread, created, started, sim_pc, sim_read,
                   lock_owner, current_time, last_set, ticks_since>>
    /\ UNCHANGED <<setVars, sleepVars, others>>

\* line 49: Environment.simulation_thread = Thread(target=...)
StartCreate(p) ==
    /\ start_pc[p] = "create"
    /\ LET t == Cardinality(created) + 1
       IN  /\ created' = created \cup {t}
           /\ simulation_thread' = t
    /\ start_pc' = [start_pc EXCEPT ![p] = "start"]
    /\ UNCHANGED <<started, sim_pc, sim_read, lock_owner, current_time,
                   last_set, ticks_since>>
    /\ UNCHANGED <<setVars, sleepVars, others>>

\* lines 50-51: Environment.simulation_thread.start(); starting a thread a
\* second time raises RuntimeError
StartThread(p) ==
    /\ start_pc[p] = "start"
    /\ IF simulation_thread \in started
       THEN /\ start_pc' = [start_pc EXCEPT ![p] = "raised"]
            /\ UNCHANGED <<started, sim_pc>>
       ELSE /\ started' = started \cup {simulation_thread}
            /\ sim_pc' = [sim_pc EXCEPT ![simulation_thread] = "check"]
            /\ start_pc' = [start_pc EXCEPT ![p] = "returned"]
    /\ UNCHANGED <<simulation_thread, created, sim_read, lock_owner,
                   current_time, last_set, ticks_since>>
    /\ UNCHANGED <<setVars, sleepVars, others>>

\* _increase_when_time_pass, lines 36-37: time.sleep(0.1), then
\* if Environment.current_time is not None
TickCheck(t) ==
    /\ sim_pc[t] = "check"
    /\ current_time # NoTime
    /\ current_time < MaxTime
    /\ sim_pc' = [sim_pc EXCEPT ![t] = "lock"]
    /\ UNCHANGED <<sim_read, lock_owner, current_time, last_set, ticks_since>>
    /\ UNCHANGED <<startVars, setVars, sleepVars, others>>

\* the += entered without taking the lock
TickLockSkipped(t) ==
    /\ sim_pc[t] = "lock"
    /\ sim_pc' = [sim_pc EXCEPT ![t] = "read"]
    /\ UNCHANGED <<sim_read, lock_owner, current_time, last_set, ticks_since>>
    /\ UNCHANGED <<startVars, setVars, sleepVars, others>>

\* line 38: with Environment.lock_current_time
TickLock(t) ==
    /\ sim_pc[t] = "lock"
    /\ CanAcquire(lock_owner, t)
    /\ lock_owner' = t
    /\ sim_pc' = [sim_pc EXCEPT ![t] = "read"]
    /\ UNCHANGED <<sim_read, current_time, last_set, ticks_since>>
    /\ UNCHANGED <<startVars, setVars, sleepVars, others>>

\* line 39, the load of Environment.current_time += ...
TickRead(t) ==
    /\ sim_pc[t] = "read"
    /\ sim_read' = [sim_read EXCEPT ![t] = current_time]
    /\ sim_pc' = [sim_pc EXCEPT ![t] = "write"]
    /\ UNCHANGED <<lock_owner, current_time, last_set, ticks_since>>
    /\ UNCHANGED <<startVars, setVars, sleepVars, others>>

\* line 39, the store of Environment.current_time += timedelta(seconds=0.1)
TickWrite(t) ==
    /\ sim_pc[t] = "write"
    /\ current_time' = sim_read[t] + 1
    /\ ticks_since' = ticks_since + 1
    /\ sim_pc' = [sim_pc EXCEPT ![t] = "unlock"]
    /\ UNCHANGED <<sim_read, lock_owner, last_set>>
    /\ UNCHANGED <<startVars, setVars, sleepVars, others>>

\* leaving the with block; back to time.sleep(0.1)
TickUnlock(t) ==
    /\ sim_pc[t] = "unlock"
    /\ lock_owner' = IF lock_owner = t THEN 0 ELSE lock_owner
    /\ sim_pc' = [sim_pc EXCEPT ![t] = "check"]
    /\ UNCHANGED <<sim_read, current_time, last_set, ticks_since>>
    /\ UNCHANGED <<startVars, setVars, sleepVars, others>>

SimThread(t) ==
    \/ TickCheck(t)
    \/ TickLock(t)
    \/ TickRead(t)
    \/ TickWrite(t)
    \/ TickUnlock(t)

\* set_time(date_time), line 43: with Environment.lock_current_time
SetLock ==
    /\ set_pc = "idle"
    /\ set_count < MaxSetTimes
    /\ CanAcquire(lock_owner, SetterId)
    /\ \E date_time \in SetTimes : set_arg' = date_time
    /\ lock_owner' = SetterId
    /\ set_count' = set_count + 1
    /\ set_pc' = "write"
    /\ UNCHANGED <<sim_pc, sim_read, current_time, last_set, ticks_since>>
    /\ UNCHANGED <<startVars, sleepVars, others>>

\* line 44: Environment.current_time = date_time.astimezone(TIMEZONE), the
\* same instant
SetWrite ==
    /\ set_pc = "write"
    /\ current_time' = set_arg
    /\ last_set' = set_arg
    /\ ticks_since' = 0
    /\ set_pc' = "unlock"
    /\ UNCHANGED <<sim_pc, sim_read, lock_owner, set_arg, set_count>>
    /\ UNCHANGED <<startVars, sleepVars, others>>

\* leaving the with block of set_time
SetUnlock ==
    /\ set_pc = "unlock"
    /\ lock_owner' = 0
    /\ set_pc' = "idle"
    /\ UNCHANGED <<sim_pc, sim_read, current_time, last_set, ticks_since,
                   set_arg, set_count>>
    /\ UNCHANGED <<startVars, sleepVars, others>>

NextEnv ==
    \/ \E p \in Starters : StartCheck(p)
    \/ \E p \in Starters : StartCreate(p)
    \/ \E p \in Starters : StartThread(p)
    \/ \E t \in SimThreads : TickCheck(t)
    \/ \E t \in SimThreads : TickLock(t)
    \/ \E t \in SimThreads : TickRead(t)
    \/ \E t \in SimThreads : TickWrite(t)
    \/ \E t \in SimThreads : TickUnlock(t)
    \/ SetLock
    \/ SetWrite
    \/ SetUnlock

\* callers of start_simulation and set_time on any schedule
SpecEnv == InitEnv /\ [][NextEnv]_vars

\* ---------------------------------------------------------------- claim C27
\* C27: under any interleaving of start_simulation calls at most one
\* simulation thread is created and started
CexC27 == Cardinality(created) <= 1 /\ Cardinality(started) <= 1

\* ---------------------------------------------------------------- claim C28
\* C28: the tick's read-add-write and the write of set_time happen with
\* lock_current_time held, and once a set_time(t) has written, current_time
\* is t plus one tick for each tick that wrote after it
ThmC28 ==
    /\ \A t \in SimThreads :
           sim_pc[t] \in {"read", "write", "unlock"} => lock_owner = t
    /\ set_pc \in {"write", "unlock"} => lock_owner = SetterId
    /\ last_set # NoTime => current_time = last_set + ticks_since

\* a set_time that had to wait for a tick, then was followed by a tick
WitC28 ==
    /\ set_count = 2
    /\ last_set = 0
    /\ ticks_since = 1
    /\ current_time = 1
    /\ set_pc = "idle"

\* ------------------------------------------------------------ sleep_until
\* ticks in a day: a calendar day scaled down to three instants
DayTicks == 3
\* datetime.datetime.now(tz=TIMEZONE), the real clock, in ticks
WallClock == 1
\* until_time arguments: the times of day
UntilTimes == 0 .. DayTicks - 1
\* the system time zone of the host, in ticks east of Asia/Ho_Chi_Minh
HostOffsets == {-1, 0, 1}

\* get_current_time()
GetCurrentTime(ct) == IF ct # NoTime THEN ct ELSE WallClock

\* .date() is the day of an instant in TIMEZONE; datetime.combine(date,
\* until_time) is naive, and .astimezone(TIMEZONE) reads a naive value as a
\* time of the host's zone
UntilDateTime(now, t, offset) == (now \div DayTicks) * DayTicks + t - offset

\* line 63: while until_date_time > Environment.get_current_time()
StillEarly(until, now) == until > now

\* one simulation thread is running and the simulated clock has been set
InitSleep ==
    /\ PerformanceUnused
    /\ QuoteUnused
    /\ CacheUnused
    /\ CsvUnused
    /\ simulation_thread = 1
    /\ created = {1}
    /\ started = {1}
    /\ start_pc = [p \in Starters |-> "returned"]
    /\ sim_pc = [t \in SimThreads |-> IF t = 1 THEN "check" ELSE "unborn"]
    /\ sim_read = [t \in SimThreads |-> NoTime]
    /\ lock_owner = 0
    /\ current_time \in SetTimes
    /\ set_pc = "idle"
    /\ set_arg = current_time
    /\ set_count = 1
    /\ last_set = current_time
    /\ ticks_since = 0
    /\ sleep_pc = "idle"
    /\ until_time = 0
    /\ until_date_time = 0
    /\ sleep_from = NoTime
    /\ returned_at = NoTime
    /\ host_offset \in HostOffsets

clockVars == <<sim_pc, sim_read, lock_owner, current_time, last_set,
               ticks_since>>

\* sleep_until(until_time), lines 61-62
SleepStart ==
    /\ sleep_pc = "idle"
    /\ \E t \in UntilTimes :
           LET now == GetCurrentTime(current_time)
           IN  /\ UntilDateTime(now, t, host_offset) <= MaxTime
               /\ until_time' = t
               /\ until_date_time' = UntilDateTime(now, t, host_offset)
               /\ sleep_from' = now
    /\ sleep_pc' = "loop"
    /\ UNCHANGED <<returned_at, host_offset>>
    /\ UNCHANGED <<clockVars, startVars, setVars, others>>

\* line 63: the loop test; the call returns when it fails
SleepCheck ==
    /\ sleep_pc = "loop"
    /\ LET now == GetCurrentTime(current_time)
       IN  IF StillEarly(until_date_time, now)
           THEN /\ sleep_pc' = "sleeping"
                /\ UNCHANGED returned_at
           ELSE /\ sleep_pc' = "returned"
                /\ returned_at' = now
    /\ UNCHANGED <<until_time, until_date_time, sleep_from, host_offset>>
    /\ UNCHANGED <<clockVars, startVars, setVars, others>>

\* line 64: time.sleep(1) is over
SleepWake ==
    /\ sleep_pc = "sleeping"
    /\ sleep_pc' = "loop"
    /\ UNCHANGED <<until_time, until_date_time, sleep_from, returned_at,
                   host_offset>>
    /\ UNCHANGED <<clockVars, startVars, setVars, others>>

NextSleep ==
    \/ \E t \in SimThreads : TickCheck(t)
    \/ \E t \in SimThreads : TickLock(t)
    \/ \E t \in SimThreads : TickRead(t)
    \/ \E t \in SimThreads : TickWrite(t)
    \/ \E t \in SimThreads : TickUnlock(t)
    \/ SetLock
    \/ SetWrite
    \/ SetUnlock
    \/ SleepStart
    \/ SleepCheck
    \/ SleepWake

\* every running thread keeps being scheduled: the simulation thread ticks,
\* a set_time in progress finishes, the sleeping caller wakes and tests
FairSleep ==
    /\ \A t \in SimThreads : WF_vars(SimThread(t))
    /\ WF_vars(SetWrite \/ SetUnlock)
    /\ WF_vars(SleepCheck \/ SleepWake)

\* a sleep_until call beside the running clock, under weak fairness
SpecSleep == InitSleep /\ [][NextSleep]_vars /\ FairSleep

\* ---------------------------------------------------------------- claim C29
\* every sleep_until call eventually returns
SleepReturns == (sleep_pc = "loop") ~> (sleep_pc = "returned")

\* a returned call saw a current time at or after t, t being a time of day
\* of the host's zone
ReturnsAfterHostTime ==
    sleep_pc = "returned" =>
        returned_at >= (sleep_from \div DayTicks) * DayTicks + until_time
                       - host_offset

\* a returned call saw a current time at or after t on the date, in the
\* environment's TIMEZONE, on which the call started
ReturnsAfterTime ==
    sleep_pc = "returned" =>
        returned_at >= (sleep_from \div DayTicks) * DayTicks + until_time

\* C29: with the clock set and the simulation thread running, every
\* sleep_until(t) call eventually returns, and returns only when the
\* current time is at or after t on the date the call started
CexC29 == SleepReturns /\ []ReturnsAfterTime
====
